---- MODULE Spec2Model ----
(***************************************************************************)
(* Model of the useWebRTC hook (src/unnamed/part_000): the peer-connection *)
(* lifecycle, the offer/answer negotiation functions with their await      *)
(* points, the status flags derived from transport events, and the capture *)
(* functions with the flags that mirror the local tracks.                  *)
(*                                                                         *)
(* The transport (RTCPeerConnection) follows the W3C WebRTC 1.0            *)
(* Recommendation the source names in its header: operations are chained   *)
(* per connection and run in call order, the signaling state decides which *)
(* descriptions are legal, a closed connection fires no event and settles  *)
(* no pending promise.  An async function is a task that moves from one    *)
(* await to the next; the code between two awaits runs as one step.        *)
(***************************************************************************)
EXTENDS Naturals, Sequences, FiniteSets, TLC

\* ---------------------------------------------------------------- bounds
MaxHandles == 2        \* peer connections ever created
MaxTasks == 2          \* negotiation calls made, each with its own slot
MaxLocalCands == 1     \* candidates a connection discovers
NumRemoteCands == 2    \* distinct candidates of the peer
MaxStalePolls == 1     \* gathering polls left running after a timeout
MaxStreams == 2        \* streams the capture provider hands out
MaxCaptures == 2       \* getUserMedia requests pending at a time

Handles == 1..MaxHandles
Tasks == 1..MaxTasks
StreamIds == 1..MaxStreams

\* ---------------------------------------------------------------- values
NoSdp == [kind |-> "none", from |-> 0]
RemoteSdp(k) == [kind |-> k, from |-> 0]

\* SignalingData pasted in by the user: its type field, the session
\* description it carries (what the SDP text really is: an offer or an answer)
\* and the peer's candidates in the order the peer listed them.
RemoteCandLists == {[i \in 1..n |-> n + 1 - i] : n \in {0, NumRemoteCands}}

SignalingData ==
    [type : {"offer", "answer"}, sdp : {RemoteSdp("offer"), RemoteSdp("answer")},
     iceCandidates : RemoteCandLists]

NoData == [type |-> "none", sdp |-> NoSdp, iceCandidates |-> <<>>]
NoResult == [type |-> "none", sdp |-> NoSdp, iceCandidates |-> <<>>, alias |-> FALSE]

\* A fresh RTCPeerConnection, and the record of one not created yet.
NewConnection ==
    [open |-> TRUE, connectionState |-> "new", iceConnectionState |-> "new",
     iceGatheringState |-> "new",
     signalingState |-> "stable", localDescription |-> NoSdp,
     remoteDescription |-> NoSdp, remoteCandidates |-> <<>>, discovered |-> 0]
NoConnection == [NewConnection EXCEPT !.open = FALSE]

\* The video and the audio track of a stream: their enabled flags, and whether
\* the tracks were stopped.
NoTracks == [video |-> FALSE, audio |-> FALSE, stopped |-> FALSE]

IdleTask ==
    [op |-> "none", st |-> "idle", h0 |-> 0, h |-> 0, data |-> NoData, i |-> 0,
     sdp |-> NoSdp, result |-> NoResult, err |-> "none", solo |-> FALSE,
     before |-> {}]

VARIABLES
    lifecycle,                \* "rendered" | "mounted" | "unmounted"
    peerConnectionRef,        \* 0 = null, else the handle
    nextHandle,               \* handles created so far
    conns,                    \* the transport's connections, by handle
    chain,                    \* each connection's operations chain (tasks)
    iceCandidatesRef,         \* the candidate accumulator
    isCreatingAnswerRef,
    isActivelyConnectingRef,
    remoteStream,             \* 0 = null, else the handle it arrived on
    isConnected,
    isConnecting,
    connectionState,
    tasks,                    \* the async calls, by slot
    stalePolls,               \* checkIceGathering loops that outlived their wait
    localStream,              \* 0 = null, else the stream held
    isCameraOn,
    isMicOn,
    mediaTracks,              \* the tracks of the streams handed out, by stream
    nextStream,               \* streams handed out so far
    capturing,                \* startCamera calls awaiting getUserMedia
    senders,                  \* the streams whose tracks a connection sends, by handle
    lastCapture,              \* how the latest capture call ended: "none" | "ok" |
                              \* "warned" | "thrown"
    appState,                 \* 'idle' | 'starting-camera' | 'ready' | 'signaling' |
                              \* 'connected'
    role,                     \* "none" = null, else 'caller' | 'callee'
    offerData,                \* 0 = null, else the call whose payload is held
    answerData,               \* 0 = null, else the call whose payload is held
    isCreatingOffer,
    isCreatingAnswer,
    everConnected             \* isConnected was true at some render since the page
                              \* was last idle

vars == <<lifecycle, peerConnectionRef, nextHandle, conns, chain, iceCandidatesRef,
          isCreatingAnswerRef, isActivelyConnectingRef, remoteStream, isConnected,
          isConnecting, connectionState, tasks, stalePolls, localStream, isCameraOn,
          isMicOn, mediaTracks, nextStream, capturing, senders, lastCapture,
          appState, role, offerData, answerData, isCreatingOffer, isCreatingAnswer,
          everConnected>>

statusVars == <<remoteStream, isConnected, isConnecting, connectionState>>
flagVars == <<isCreatingAnswerRef, isActivelyConnectingRef>>
transportVars == <<peerConnectionRef, nextHandle, conns, chain>>
mediaVars == <<localStream, isCameraOn, isMicOn, mediaTracks, nextStream, capturing,
               senders, lastCapture>>
pageVars == <<appState, role, offerData, answerData, isCreatingOffer, isCreatingAnswer,
              everConnected>>
hookVars == <<lifecycle, transportVars, iceCandidatesRef, flagVars, statusVars, tasks,
              stalePolls>>

Init ==
    /\ lifecycle = "rendered"
    /\ peerConnectionRef = 0
    /\ nextHandle = 0
    /\ conns = [h \in Handles |-> NoConnection]
    /\ chain = [h \in Handles |-> <<>>]
    /\ iceCandidatesRef = <<>>
    /\ isCreatingAnswerRef = FALSE
    /\ isActivelyConnectingRef = FALSE
    /\ remoteStream = 0
    /\ isConnected = FALSE
    /\ isConnecting = FALSE
    /\ connectionState = "new"
    /\ tasks = [t \in Tasks |-> IdleTask]
    /\ stalePolls = 0
    /\ localStream = 0
    /\ isCameraOn = FALSE
    /\ isMicOn = FALSE
    /\ mediaTracks = [s \in StreamIds |-> NoTracks]
    /\ nextStream = 0
    /\ capturing = 0
    /\ senders = [h \in Handles |-> {}]
    /\ lastCapture = "none"
    /\ appState = "idle"
    /\ role = "none"
    /\ offerData = 0
    /\ answerData = 0
    /\ isCreatingOffer = FALSE
    /\ isCreatingAnswer = FALSE
    /\ everConnected = FALSE

\* ------------------------------------------------------------- transport
\* RTCPeerConnection.close(): the connection is closed for good.
Close(cs, h) ==
    [cs EXCEPT ![h].open = FALSE, ![h].connectionState = "closed",
               ![h].iceConnectionState = "closed", ![h].signalingState = "closed"]

\* Legal signaling states of the chained operations (W3C WebRTC 1.0, 4.4.1).
CanCreateOffer(c) == c.signalingState \in {"stable", "have-local-offer"}
CanCreateAnswer(c) == c.signalingState = "have-remote-offer"
CanSetLocal(c, type) ==
    IF type = "offer" THEN c.signalingState \in {"stable", "have-local-offer"}
    ELSE c.signalingState = "have-remote-offer"
\* sdp is parsed as a description of the given type.
CanSetRemote(c, type, sdp) ==
    /\ sdp.kind = type
    /\ IF type = "offer"
       THEN c.signalingState \in {"stable", "have-local-offer", "have-remote-offer"}
       ELSE c.signalingState = "have-local-offer"
CanAddIceCandidate(c) == c.remoteDescription # NoSdp

\* setLocalDescription succeeded: the description is committed and candidate
\* gathering starts.
SetLocal(c, type, sdp) ==
    [c EXCEPT !.localDescription = sdp,
              !.signalingState = IF type = "offer" THEN "have-local-offer" ELSE "stable",
              !.iceGatheringState = IF @ = "new" THEN "gathering" ELSE @]

\* setRemoteDescription succeeded; a remote offer over a pending local offer
\* rolls the local offer back.
SetRemote(c, type, sdp) ==
    [c EXCEPT !.remoteDescription = sdp,
              !.signalingState = IF type = "offer" THEN "have-remote-offer" ELSE "stable",
              !.localDescription =
                  IF type = "offer" /\ c.signalingState = "have-local-offer"
                  THEN NoSdp ELSE @]

\* Task t awaits the transport call s, which is the next operation its
\* connection runs; a closed connection settles nothing.
Settles(t, s) ==
    /\ tasks[t].st = s
    /\ tasks[t].h # 0
    /\ conns[tasks[t].h].open
    /\ chain[tasks[t].h] # <<>>
    /\ Head(chain[tasks[t].h]) = t

Dequeue(ch, h) == [ch EXCEPT ![h] = Tail(@)]
\* The next call goes to whatever peerConnectionRef.current is now.
Issue(ch, t) == [ch EXCEPT ![peerConnectionRef] = Append(@, t)]

\* `iceCandidatesRef.current = []` binds a new array: a payload that was
\* returned with the old array no longer shares it.
Unalias(ts) == [t \in Tasks |-> [ts[t] EXCEPT !.result.alias = FALSE]]

\* `iceCandidatesRef.current.push(c)` grows the array in place, and with it
\* every returned payload that still holds that array.
PushShared(ts, c) ==
    [t \in Tasks |->
        IF ts[t].result.alias
        THEN [ts[t] EXCEPT !.result.iceCandidates = Append(@, c)]
        ELSE ts[t]]

\* ------------------------------------------------------ connection manager
CloseCurrent(cs) ==
    IF peerConnectionRef # 0 THEN Close(cs, peerConnectionRef) ELSE cs
DropChain(ch) ==
    IF peerConnectionRef # 0 THEN [ch EXCEPT ![peerConnectionRef] = <<>>] ELSE ch

\* initializePeerConnection without the close of the previous connection.
initializePeerConnection_leak(cs) ==
    /\ nextHandle < MaxHandles
    /\ nextHandle' = nextHandle + 1
    /\ conns' = [cs EXCEPT ![nextHandle + 1] = NewConnection]
    /\ chain' = DropChain(chain)
    /\ peerConnectionRef' = nextHandle + 1
    /\ iceCandidatesRef' = <<>>
    /\ tasks' = Unalias(tasks)

\* cs: the connections as the caller left them.
initializePeerConnection(cs) ==
    /\ nextHandle < MaxHandles
    /\ nextHandle' = nextHandle + 1
    /\ conns' = [CloseCurrent(cs) EXCEPT ![nextHandle + 1] = NewConnection]
    /\ chain' = DropChain(chain)
    /\ peerConnectionRef' = nextHandle + 1
    /\ iceCandidatesRef' = <<>>
    /\ tasks' = Unalias(tasks)

\* useEffect on mount (also its re-run after a cleanup).
Mount ==
    /\ lifecycle \in {"rendered", "unmounted"}
    /\ lifecycle' = "mounted"
    /\ initializePeerConnection(conns)
    /\ UNCHANGED <<statusVars, flagVars, stalePolls>>
    /\ UNCHANGED mediaVars

\* The effect's cleanup: closes the connection, keeps the ref.
Unmount ==
    /\ lifecycle = "mounted"
    /\ lifecycle' = "unmounted"
    /\ conns' = CloseCurrent(conns)
    /\ chain' = DropChain(chain)
    /\ UNCHANGED <<peerConnectionRef, nextHandle, iceCandidatesRef, statusVars,
                   flagVars, tasks, stalePolls>>
    /\ UNCHANGED mediaVars

\* resetConnection that leaves isActivelyConnectingRef as it is.
resetConnection_keepFlag ==
    /\ lifecycle # "unmounted"
    /\ remoteStream' = 0
    /\ isConnected' = FALSE
    /\ isConnecting' = FALSE
    /\ connectionState' = "new"
    /\ isCreatingAnswerRef' = FALSE
    /\ initializePeerConnection(CloseCurrent(conns))
    /\ UNCHANGED <<lifecycle, stalePolls, isActivelyConnectingRef>>
    /\ UNCHANGED mediaVars

\* What resetConnection does to the hook's state.
resetConnection_run ==
    /\ remoteStream' = 0
    /\ isConnected' = FALSE
    /\ isConnecting' = FALSE
    /\ connectionState' = "new"
    /\ isActivelyConnectingRef' = FALSE
    /\ isCreatingAnswerRef' = FALSE
    /\ initializePeerConnection(CloseCurrent(conns))
    /\ UNCHANGED <<lifecycle, stalePolls>>

resetConnection ==
    /\ lifecycle # "unmounted"
    /\ resetConnection_run
    /\ UNCHANGED mediaVars

\* --------------------------------------------------------- event observers
\* The transport moves an open connection to state s and fires
\* connectionstatechange; the observer reads the connection's state.
ConnectionStateNext(c) ==
    CASE c.connectionState = "new" ->
            IF c.localDescription # NoSdp /\ c.remoteDescription # NoSdp
            THEN {"connecting"} ELSE {}
      [] c.connectionState = "connecting" -> {"connected", "disconnected", "failed"}
      [] c.connectionState = "connected" -> {"disconnected", "failed"}
      [] c.connectionState = "disconnected" -> {"connected", "connecting", "failed"}
      [] OTHER -> {}

\* The transport changes the ICE connection state and the connection state in
\* one task and fires iceconnectionstatechange, then connectionstatechange.
\* The ICE observer logs the state and does nothing else.
IceStateFor(state) == IF state = "connecting" THEN "checking" ELSE state
StateChanged(cs, h, state) ==
    [cs EXCEPT ![h].connectionState = state,
               ![h].iceConnectionState = IceStateFor(state)]

\* The ICE connection state changes and the connection state does not: the
\* candidate pair is found while the connection as a whole is still
\* connecting.  Only the ICE observer runs.
oniceconnectionstatechange(h) ==
    /\ conns[h].open
    /\ conns[h].connectionState = "connecting"
    /\ conns[h].iceConnectionState = "checking"
    /\ conns' = [conns EXCEPT ![h].iceConnectionState = "connected"]
    /\ UNCHANGED <<lifecycle, peerConnectionRef, nextHandle, chain, iceCandidatesRef,
                   flagVars, statusVars, tasks, stalePolls>>
    /\ UNCHANGED mediaVars

\* An observer that opens a new connection when the transport reports failed.
onconnectionstatechange_recover(h, state) ==
    /\ conns[h].open
    /\ state \in ConnectionStateNext(conns[h])
    /\ connectionState' = state
    /\ isConnected' = (state = "connected")
    /\ IF isActivelyConnectingRef /\ state = "connecting"
       THEN /\ isConnecting' = TRUE
            /\ UNCHANGED isActivelyConnectingRef
       ELSE IF state \in {"connected", "disconnected", "failed"}
       THEN /\ isConnecting' = FALSE
            /\ isActivelyConnectingRef' = FALSE
       ELSE UNCHANGED <<isConnecting, isActivelyConnectingRef>>
    /\ IF state = "failed" /\ nextHandle < MaxHandles
       THEN initializePeerConnection(StateChanged(conns, h, state))
       ELSE /\ conns' = StateChanged(conns, h, state)
            /\ UNCHANGED <<peerConnectionRef, nextHandle, chain, iceCandidatesRef, tasks>>
    /\ UNCHANGED <<lifecycle, isCreatingAnswerRef, remoteStream, stalePolls>>
    /\ UNCHANGED mediaVars

\* An observer that never takes isConnected back.
onconnectionstatechange_stickyConnected(h, state) ==
    /\ conns[h].open
    /\ state \in ConnectionStateNext(conns[h])
    /\ conns' = StateChanged(conns, h, state)
    /\ connectionState' = state
    /\ isConnected' = (isConnected \/ state = "connected")
    /\ IF isActivelyConnectingRef /\ state = "connecting"
       THEN /\ isConnecting' = TRUE
            /\ UNCHANGED isActivelyConnectingRef
       ELSE IF state \in {"connected", "disconnected", "failed"}
       THEN /\ isConnecting' = FALSE
            /\ isActivelyConnectingRef' = FALSE
       ELSE UNCHANGED <<isConnecting, isActivelyConnectingRef>>
    /\ UNCHANGED <<lifecycle, peerConnectionRef, nextHandle, chain, iceCandidatesRef,
                   isCreatingAnswerRef, remoteStream, tasks, stalePolls>>
    /\ UNCHANGED mediaVars

\* The observer without the isActivelyConnectingRef test.
onconnectionstatechange_unguarded(h, state) ==
    /\ conns[h].open
    /\ state \in ConnectionStateNext(conns[h])
    /\ conns' = StateChanged(conns, h, state)
    /\ connectionState' = state
    /\ isConnected' = (state = "connected")
    /\ IF state = "connecting"
       THEN /\ isConnecting' = TRUE
            /\ UNCHANGED isActivelyConnectingRef
       ELSE /\ isConnecting' = FALSE
            /\ isActivelyConnectingRef' = FALSE
    /\ UNCHANGED <<lifecycle, peerConnectionRef, nextHandle, chain, iceCandidatesRef,
                   isCreatingAnswerRef, remoteStream, tasks, stalePolls>>
    /\ UNCHANGED mediaVars

\* The observer clearing the connecting display on 'connected' only.
onconnectionstatechange_connectedOnly(h, state) ==
    /\ conns[h].open
    /\ state \in ConnectionStateNext(conns[h])
    /\ conns' = StateChanged(conns, h, state)
    /\ connectionState' = state
    /\ isConnected' = (state = "connected")
    /\ IF isActivelyConnectingRef /\ state = "connecting"
       THEN /\ isConnecting' = TRUE
            /\ UNCHANGED isActivelyConnectingRef
       ELSE IF state = "connected"
       THEN /\ isConnecting' = FALSE
            /\ isActivelyConnectingRef' = FALSE
       ELSE UNCHANGED <<isConnecting, isActivelyConnectingRef>>
    /\ UNCHANGED <<lifecycle, peerConnectionRef, nextHandle, chain, iceCandidatesRef,
                   isCreatingAnswerRef, remoteStream, tasks, stalePolls>>
    /\ UNCHANGED mediaVars

onconnectionstatechange(h, state) ==
    /\ conns[h].open
    /\ state \in ConnectionStateNext(conns[h])
    /\ conns' = StateChanged(conns, h, state)
    /\ connectionState' = state
    /\ isConnected' = (state = "connected")
    /\ IF isActivelyConnectingRef /\ state = "connecting"
       THEN /\ isConnecting' = TRUE
            /\ UNCHANGED isActivelyConnectingRef
       ELSE IF state \in {"connected", "disconnected", "failed"}
       THEN /\ isConnecting' = FALSE
            /\ isActivelyConnectingRef' = FALSE
       ELSE UNCHANGED <<isConnecting, isActivelyConnectingRef>>
    /\ UNCHANGED <<lifecycle, peerConnectionRef, nextHandle, chain, iceCandidatesRef,
                   isCreatingAnswerRef, remoteStream, tasks, stalePolls>>
    /\ UNCHANGED mediaVars

\* A remote track arrives once a remote description is in place.
ontrack(h) ==
    /\ conns[h].open
    /\ conns[h].remoteDescription # NoSdp
    /\ remoteStream # h
    /\ remoteStream' = h
    /\ UNCHANGED <<lifecycle, transportVars, iceCandidatesRef, flagVars, isConnected,
                   isConnecting, connectionState, tasks, stalePolls>>
    /\ UNCHANGED mediaVars

\* The connection discovers a local candidate while it gathers.
onicecandidate(h) ==
    /\ conns[h].open
    /\ conns[h].iceGatheringState = "gathering"
    /\ conns[h].discovered < MaxLocalCands
    /\ conns' = [conns EXCEPT ![h].discovered = @ + 1]
    /\ iceCandidatesRef' = Append(iceCandidatesRef, <<h, conns[h].discovered + 1>>)
    /\ tasks' = PushShared(tasks, <<h, conns[h].discovered + 1>>)
    /\ UNCHANGED <<lifecycle, peerConnectionRef, nextHandle, chain, flagVars,
                   statusVars, stalePolls>>
    /\ UNCHANGED mediaVars

\* Gathering ends (the null candidate is not pushed).
onicegatheringstatechange(h) ==
    /\ conns[h].open
    /\ conns[h].iceGatheringState = "gathering"
    /\ conns' = [conns EXCEPT ![h].iceGatheringState = "complete"]
    /\ UNCHANGED <<lifecycle, peerConnectionRef, nextHandle, chain, iceCandidatesRef,
                   flagVars, statusVars, tasks, stalePolls>>
    /\ UNCHANGED mediaVars

\* -------------------------------------------------------------- async calls
Awaits == {"createOffer", "setLocalDescription", "setRemoteDescription",
           "addIceCandidate", "createAnswer"}

\* Calls take the slots in order; a slot keeps the outcome of its call.
FreeSlot(t) ==
    /\ tasks[t].st = "idle"
    /\ \A u \in Tasks : u < t => tasks[u].st # "idle"

\* A call is running until it returns or throws; one that awaits a closed
\* connection never resumes.
Running(task) ==
    /\ task.st \notin {"idle", "resolved", "rejected"}
    /\ task.st \in Awaits => conns[task.h].open

\* The candidates the connections of cs have discovered so far.
Discovered(cs) ==
    {c \in Handles \X (1..MaxLocalCands) : c[2] <= cs[c[1]].discovered}

\* solo records that no other call was running at any time during this call
\* (the one-call-at-a-time discipline of the callers); before records the
\* candidates that were discovered before the call began.
Start(op, data) ==
    [IdleTask EXCEPT !.op = op, !.h0 = peerConnectionRef, !.h = peerConnectionRef,
                     !.data = data, !.before = Discovered(conns),
                     !.solo = \A u \in Tasks : ~Running(tasks[u])]
Overlapped(ts) ==
    [u \in Tasks |-> IF Running(ts[u]) THEN [ts[u] EXCEPT !.solo = FALSE] ELSE ts[u]]
Thrown(task, err) ==
    [task EXCEPT !.st = "rejected", !.err = err, !.h = 0, !.i = 0, !.sdp = NoSdp]
\* The SignalingData object a call returns: it holds the accumulator's array
\* itself, not a copy.
Returned(task, type) ==
    [task EXCEPT !.st = "resolved", !.h = 0, !.i = 0,
                 !.result = [type |-> type, sdp |-> task.sdp,
                             iceCandidates |-> iceCandidatesRef, alias |-> TRUE]]

\* The gathering wait, entered with the connections as cs: the first
\* checkIceGathering() runs at once and resolves the wait if the current
\* connection already finished gathering.
GatheredNow(cs) ==
    peerConnectionRef # 0 /\ cs[peerConnectionRef].iceGatheringState = "complete"

\* One more poll is left running; the count stops at MaxStalePolls, which then
\* stands for that many or more.
LeftPolling(n) == IF n < MaxStalePolls THEN n + 1 ELSE n

\* ---- createOffer
\* createOffer that keeps the accumulator's array for the new round.
createOffer_keepCandidates(t) ==
    /\ lifecycle # "unmounted"
    /\ FreeSlot(t)
    /\ IF peerConnectionRef = 0
       THEN /\ tasks' = [tasks EXCEPT
                            ![t] = Thrown(Start("createOffer", NoData), "NotInitialized")]
            /\ UNCHANGED chain
       ELSE /\ tasks' = [Overlapped(tasks) EXCEPT
                            ![t] = [Start("createOffer", NoData) EXCEPT !.st = "createOffer"]]
            /\ chain' = Issue(chain, t)
    /\ UNCHANGED <<lifecycle, peerConnectionRef, nextHandle, conns, iceCandidatesRef,
                   flagVars, statusVars, stalePolls>>
    /\ UNCHANGED mediaVars

\* The call up to its first await: the accumulator is emptied, then
\* pc.createOffer() is called.
createOffer(t) ==
    /\ lifecycle # "unmounted"
    /\ FreeSlot(t)
    /\ IF peerConnectionRef = 0
       THEN /\ tasks' = [tasks EXCEPT
                            ![t] = Thrown(Start("createOffer", NoData), "NotInitialized")]
            /\ UNCHANGED <<chain, iceCandidatesRef>>
       ELSE /\ iceCandidatesRef' = <<>>
            /\ tasks' = [Overlapped(Unalias(tasks)) EXCEPT
                            ![t] = [Start("createOffer", NoData) EXCEPT !.st = "createOffer"]]
            /\ chain' = Issue(chain, t)
    /\ UNCHANGED <<lifecycle, peerConnectionRef, nextHandle, conns, flagVars,
                   statusVars, stalePolls>>
    /\ UNCHANGED mediaVars

\* pc.createOffer() settles; on success setLocalDescription(offer) is called.
createOffer_created(t) ==
    /\ tasks[t].op = "createOffer"
    /\ Settles(t, "createOffer")
    /\ LET h == tasks[t].h IN
       IF CanCreateOffer(conns[h])
       THEN /\ tasks' = [tasks EXCEPT ![t].st = "setLocalDescription",
                                      ![t].sdp = [kind |-> "offer", from |-> h],
                                      ![t].h = peerConnectionRef]
            /\ chain' = Issue(Dequeue(chain, h), t)
       ELSE /\ tasks' = [tasks EXCEPT ![t] = Thrown(@, "InvalidState")]
            /\ chain' = Dequeue(chain, h)
    /\ UNCHANGED <<lifecycle, peerConnectionRef, nextHandle, conns, iceCandidatesRef,
                   flagVars, statusVars, stalePolls>>
    /\ UNCHANGED mediaVars

\* setLocalDescription(offer) settles; on success the gathering wait starts.
createOffer_localSet(t) ==
    /\ tasks[t].op = "createOffer"
    /\ Settles(t, "setLocalDescription")
    /\ LET h == tasks[t].h IN
       IF CanSetLocal(conns[h], "offer")
       THEN /\ conns' = [conns EXCEPT ![h] = SetLocal(@, "offer", tasks[t].sdp)]
            /\ tasks' = [tasks EXCEPT
                            ![t] = IF GatheredNow(conns')
                                   THEN Returned(@, "offer")
                                   ELSE [@ EXCEPT !.st = "wait", !.h = 0]]
       ELSE /\ tasks' = [tasks EXCEPT ![t] = Thrown(@, "InvalidState")]
            /\ UNCHANGED conns
    /\ chain' = Dequeue(chain, tasks[t].h)
    /\ UNCHANGED <<lifecycle, peerConnectionRef, nextHandle, iceCandidatesRef,
                   flagVars, statusVars, stalePolls>>
    /\ UNCHANGED mediaVars

\* A 100 ms poll finds the current connection's gathering complete: the
\* timeout is cleared, the wait resolves and the payload is returned.
createOffer_gathered(t) ==
    /\ tasks[t].op = "createOffer"
    /\ tasks[t].st = "wait"
    /\ GatheredNow(conns)
    /\ tasks' = [tasks EXCEPT ![t] = Returned(@, "offer")]
    /\ UNCHANGED <<lifecycle, transportVars, iceCandidatesRef, flagVars, statusVars,
                   stalePolls>>
    /\ UNCHANGED mediaVars

\* A timeout that rejects the wait instead of resolving it.
createOffer_timeout_reject(t) ==
    /\ tasks[t].op = "createOffer"
    /\ tasks[t].st = "wait"
    /\ stalePolls' = LeftPolling(stalePolls)
    /\ tasks' = [tasks EXCEPT ![t] = Thrown(@, "GatheringTimeout")]
    /\ UNCHANGED <<lifecycle, transportVars, iceCandidatesRef, flagVars, statusVars>>
    /\ UNCHANGED mediaVars

\* The 2 s timeout fires first: the wait resolves, the poll keeps running.
createOffer_timeout(t) ==
    /\ tasks[t].op = "createOffer"
    /\ tasks[t].st = "wait"
    /\ stalePolls' = LeftPolling(stalePolls)
    /\ tasks' = [tasks EXCEPT ![t] = Returned(@, "offer")]
    /\ UNCHANGED <<lifecycle, transportVars, iceCandidatesRef, flagVars, statusVars>>
    /\ UNCHANGED mediaVars

\* A poll that outlived its wait stops once it sees gathering complete.
checkIceGathering_stale ==
    /\ stalePolls > 0
    /\ GatheredNow(conns)
    /\ stalePolls' = stalePolls - 1
    /\ UNCHANGED <<lifecycle, transportVars, iceCandidatesRef, flagVars, statusVars,
                   tasks>>
    /\ UNCHANGED mediaVars

\* ---- handleAnswer
\* handleAnswer that leaves the flag and isConnecting for after the await.
handleAnswer_late(t, data) ==
    /\ lifecycle # "unmounted"
    /\ FreeSlot(t)
    /\ IF peerConnectionRef = 0
       THEN /\ tasks' = [tasks EXCEPT
                            ![t] = Thrown(Start("handleAnswer", data), "NotInitialized")]
            /\ UNCHANGED <<chain, flagVars, isConnecting>>
       ELSE /\ isCreatingAnswerRef' = FALSE
            /\ UNCHANGED <<isActivelyConnectingRef, isConnecting>>
            /\ tasks' = [Overlapped(tasks) EXCEPT
                            ![t] = [Start("handleAnswer", data) EXCEPT
                                       !.st = "setRemoteDescription"]]
            /\ chain' = Issue(chain, t)
    /\ UNCHANGED <<lifecycle, peerConnectionRef, nextHandle, conns, iceCandidatesRef,
                   remoteStream, isConnected, connectionState, stalePolls>>
    /\ UNCHANGED mediaVars

\* handleAnswer that sets the flags before it looks at peerConnectionRef.
handleAnswer_checkLate(t, data) ==
    /\ lifecycle # "unmounted"
    /\ FreeSlot(t)
    /\ isCreatingAnswerRef' = FALSE
    /\ isActivelyConnectingRef' = TRUE
    /\ IF peerConnectionRef = 0
       THEN /\ tasks' = [tasks EXCEPT
                            ![t] = Thrown(Start("handleAnswer", data), "NotInitialized")]
            /\ isConnecting' = FALSE
            /\ UNCHANGED chain
       ELSE /\ isConnecting' = TRUE
            /\ tasks' = [Overlapped(tasks) EXCEPT
                            ![t] = [Start("handleAnswer", data) EXCEPT
                                       !.st = "setRemoteDescription"]]
            /\ chain' = Issue(chain, t)
    /\ UNCHANGED <<lifecycle, peerConnectionRef, nextHandle, conns, iceCandidatesRef,
                   remoteStream, isConnected, connectionState, stalePolls>>
    /\ UNCHANGED mediaVars

\* The call up to its first await: the flags are set and isConnecting is
\* published, then setRemoteDescription({type: 'answer', sdp}) is called.
handleAnswer(t, data) ==
    /\ lifecycle # "unmounted"
    /\ FreeSlot(t)
    /\ IF peerConnectionRef = 0
       THEN /\ tasks' = [tasks EXCEPT
                            ![t] = Thrown(Start("handleAnswer", data), "NotInitialized")]
            /\ UNCHANGED <<chain, flagVars, isConnecting>>
       ELSE /\ isCreatingAnswerRef' = FALSE
            /\ isActivelyConnectingRef' = TRUE
            /\ isConnecting' = TRUE
            /\ tasks' = [Overlapped(tasks) EXCEPT
                            ![t] = [Start("handleAnswer", data) EXCEPT
                                       !.st = "setRemoteDescription"]]
            /\ chain' = Issue(chain, t)
    /\ UNCHANGED <<lifecycle, peerConnectionRef, nextHandle, conns, iceCandidatesRef,
                   remoteStream, isConnected, connectionState, stalePolls>>
    /\ UNCHANGED mediaVars

\* A catch block that logs the error and does not rethrow it.
handleAnswer_catch_swallow(t, err) ==
    /\ tasks' = [tasks EXCEPT ![t].st = "resolved", ![t].h = 0, ![t].i = 0]
    /\ isConnecting' = FALSE
    /\ UNCHANGED <<isActivelyConnectingRef, isCreatingAnswerRef>>

\* What the catch block of handleAnswer does before it rethrows.
handleAnswer_catch(t, err) ==
    /\ tasks' = [tasks EXCEPT ![t] = Thrown(@, err)]
    /\ isConnecting' = FALSE
    /\ UNCHANGED <<isActivelyConnectingRef, isCreatingAnswerRef>>

\* After the remote description, or candidate i, was applied: the loop calls
\* addIceCandidate for the next candidate of the payload, or the call returns.
handleAnswer_next(t, i) ==
    IF i < Len(tasks[t].data.iceCandidates)
    THEN /\ tasks' = [tasks EXCEPT ![t].st = "addIceCandidate", ![t].i = i + 1,
                                   ![t].h = peerConnectionRef]
         /\ chain' = Issue(Dequeue(chain, tasks[t].h), t)
    ELSE /\ tasks' = [tasks EXCEPT ![t].st = "resolved", ![t].h = 0, ![t].i = 0]
         /\ chain' = Dequeue(chain, tasks[t].h)

\* setRemoteDescription(answer) settles: the transport takes the description
\* if the signaling state allows an answer and it accepts the SDP.
handleAnswer_remoteSet(t, accepted) ==
    /\ tasks[t].op = "handleAnswer"
    /\ Settles(t, "setRemoteDescription")
    /\ LET h == tasks[t].h IN
       IF accepted /\ CanSetRemote(conns[h], "answer", tasks[t].data.sdp)
       THEN /\ conns' = [conns EXCEPT ![h] = SetRemote(@, "answer", tasks[t].data.sdp)]
            /\ handleAnswer_next(t, 0)
            /\ UNCHANGED <<flagVars, isConnecting>>
       ELSE /\ handleAnswer_catch(t, IF CanSetRemote(conns[h], "answer", tasks[t].data.sdp)
                                     THEN "RemoteDescriptionRejected" ELSE "InvalidState")
            /\ chain' = Dequeue(chain, h)
            /\ UNCHANGED conns
    /\ UNCHANGED <<lifecycle, peerConnectionRef, nextHandle, iceCandidatesRef,
                   remoteStream, isConnected, connectionState, stalePolls>>
    /\ UNCHANGED mediaVars

\* A loop that applies the candidates from the end of the list.
handleAnswer_candidateAdded_reversed(t, accepted) ==
    /\ tasks[t].op = "handleAnswer"
    /\ Settles(t, "addIceCandidate")
    /\ LET h == tasks[t].h IN
       IF accepted /\ CanAddIceCandidate(conns[h])
       THEN /\ conns' = [conns EXCEPT ![h].remoteCandidates =
                            Append(@, tasks[t].data.iceCandidates[
                                Len(tasks[t].data.iceCandidates) + 1 - tasks[t].i])]
            /\ handleAnswer_next(t, tasks[t].i)
            /\ UNCHANGED <<flagVars, isConnecting>>
       ELSE /\ handleAnswer_catch(t, IF CanAddIceCandidate(conns[h])
                                     THEN "CandidateRejected" ELSE "InvalidState")
            /\ chain' = Dequeue(chain, h)
            /\ UNCHANGED conns
    /\ UNCHANGED <<lifecycle, peerConnectionRef, nextHandle, iceCandidatesRef,
                   remoteStream, isConnected, connectionState, stalePolls>>
    /\ UNCHANGED mediaVars

\* addIceCandidate(candidate i) settles.
handleAnswer_candidateAdded(t, accepted) ==
    /\ tasks[t].op = "handleAnswer"
    /\ Settles(t, "addIceCandidate")
    /\ LET h == tasks[t].h IN
       IF accepted /\ CanAddIceCandidate(conns[h])
       THEN /\ conns' = [conns EXCEPT ![h].remoteCandidates =
                            Append(@, tasks[t].data.iceCandidates[tasks[t].i])]
            /\ handleAnswer_next(t, tasks[t].i)
            /\ UNCHANGED <<flagVars, isConnecting>>
       ELSE /\ handleAnswer_catch(t, IF CanAddIceCandidate(conns[h])
                                     THEN "CandidateRejected" ELSE "InvalidState")
            /\ chain' = Dequeue(chain, h)
            /\ UNCHANGED conns
    /\ UNCHANGED <<lifecycle, peerConnectionRef, nextHandle, iceCandidatesRef,
                   remoteStream, isConnected, connectionState, stalePolls>>
    /\ UNCHANGED mediaVars

\* ---- createAnswer
\* The call up to its first await.
createAnswer(t, data) ==
    /\ lifecycle # "unmounted"
    /\ FreeSlot(t)
    /\ IF peerConnectionRef = 0
       THEN /\ tasks' = [tasks EXCEPT
                            ![t] = Thrown(Start("createAnswer", data), "NotInitialized")]
            /\ UNCHANGED <<chain, iceCandidatesRef, isCreatingAnswerRef>>
       ELSE /\ iceCandidatesRef' = <<>>
            /\ isCreatingAnswerRef' = TRUE
            /\ tasks' = [Overlapped(Unalias(tasks)) EXCEPT
                            ![t] = [Start("createAnswer", data) EXCEPT
                                       !.st = "setRemoteDescription"]]
            /\ chain' = Issue(chain, t)
    /\ UNCHANGED <<lifecycle, peerConnectionRef, nextHandle, conns,
                   isActivelyConnectingRef, statusVars, stalePolls>>
    /\ UNCHANGED mediaVars

\* A catch block that rethrows and leaves isCreatingAnswerRef as it is.
createAnswer_catch_keepFlag(t, err) ==
    /\ tasks' = [tasks EXCEPT ![t] = Thrown(@, err)]
    /\ UNCHANGED isCreatingAnswerRef

\* The catch block of createAnswer.
createAnswer_catch(t, err) ==
    /\ tasks' = [tasks EXCEPT ![t] = Thrown(@, err)]
    /\ isCreatingAnswerRef' = FALSE

\* The candidate loop, then pc.createAnswer().
createAnswer_next(t, i) ==
    /\ tasks' = IF i < Len(tasks[t].data.iceCandidates)
                THEN [tasks EXCEPT ![t].st = "addIceCandidate", ![t].i = i + 1,
                                   ![t].h = peerConnectionRef]
                ELSE [tasks EXCEPT ![t].st = "createAnswer", ![t].i = 0,
                                   ![t].h = peerConnectionRef]
    /\ chain' = Issue(Dequeue(chain, tasks[t].h), t)

\* setRemoteDescription({type: 'offer', sdp}) settles.
createAnswer_remoteSet(t, accepted) ==
    /\ tasks[t].op = "createAnswer"
    /\ Settles(t, "setRemoteDescription")
    /\ LET h == tasks[t].h IN
       IF accepted /\ CanSetRemote(conns[h], "offer", tasks[t].data.sdp)
       THEN /\ conns' = [conns EXCEPT ![h] = SetRemote(@, "offer", tasks[t].data.sdp)]
            /\ createAnswer_next(t, 0)
            /\ UNCHANGED isCreatingAnswerRef
       ELSE /\ createAnswer_catch(t, IF CanSetRemote(conns[h], "offer", tasks[t].data.sdp)
                                     THEN "RemoteDescriptionRejected" ELSE "InvalidState")
            /\ chain' = Dequeue(chain, h)
            /\ UNCHANGED conns
    /\ UNCHANGED <<lifecycle, peerConnectionRef, nextHandle, iceCandidatesRef,
                   isActivelyConnectingRef, statusVars, stalePolls>>
    /\ UNCHANGED mediaVars

createAnswer_candidateAdded(t, accepted) ==
    /\ tasks[t].op = "createAnswer"
    /\ Settles(t, "addIceCandidate")
    /\ LET h == tasks[t].h IN
       IF accepted /\ CanAddIceCandidate(conns[h])
       THEN /\ conns' = [conns EXCEPT ![h].remoteCandidates =
                            Append(@, tasks[t].data.iceCandidates[tasks[t].i])]
            /\ createAnswer_next(t, tasks[t].i)
            /\ UNCHANGED isCreatingAnswerRef
       ELSE /\ createAnswer_catch(t, IF CanAddIceCandidate(conns[h])
                                     THEN "CandidateRejected" ELSE "InvalidState")
            /\ chain' = Dequeue(chain, h)
            /\ UNCHANGED conns
    /\ UNCHANGED <<lifecycle, peerConnectionRef, nextHandle, iceCandidatesRef,
                   isActivelyConnectingRef, statusVars, stalePolls>>
    /\ UNCHANGED mediaVars

\* pc.createAnswer() settles; on success setLocalDescription(answer) is called.
createAnswer_created(t) ==
    /\ tasks[t].op = "createAnswer"
    /\ Settles(t, "createAnswer")
    /\ LET h == tasks[t].h IN
       IF CanCreateAnswer(conns[h])
       THEN /\ tasks' = [tasks EXCEPT ![t].st = "setLocalDescription",
                                      ![t].sdp = [kind |-> "answer", from |-> h],
                                      ![t].h = peerConnectionRef]
            /\ chain' = Issue(Dequeue(chain, h), t)
            /\ UNCHANGED isCreatingAnswerRef
       ELSE /\ createAnswer_catch(t, "InvalidState")
            /\ chain' = Dequeue(chain, h)
    /\ UNCHANGED <<lifecycle, peerConnectionRef, nextHandle, conns, iceCandidatesRef,
                   isActivelyConnectingRef, statusVars, stalePolls>>
    /\ UNCHANGED mediaVars

\* The return of createAnswer: the payload is built, the flag is cleared.
createAnswer_return(t) ==
    /\ tasks' = [tasks EXCEPT ![t] = Returned(@, "answer")]
    /\ isCreatingAnswerRef' = FALSE

\* setLocalDescription(answer) settles; on success the gathering wait starts.
createAnswer_localSet(t) ==
    /\ tasks[t].op = "createAnswer"
    /\ Settles(t, "setLocalDescription")
    /\ LET h == tasks[t].h IN
       IF CanSetLocal(conns[h], "answer")
       THEN /\ conns' = [conns EXCEPT ![h] = SetLocal(@, "answer", tasks[t].sdp)]
            /\ IF GatheredNow(conns')
               THEN createAnswer_return(t)
               ELSE /\ tasks' = [tasks EXCEPT ![t].st = "wait", ![t].h = 0]
                    /\ UNCHANGED isCreatingAnswerRef
       ELSE /\ createAnswer_catch(t, "InvalidState")
            /\ UNCHANGED conns
    /\ chain' = Dequeue(chain, tasks[t].h)
    /\ UNCHANGED <<lifecycle, peerConnectionRef, nextHandle, iceCandidatesRef,
                   isActivelyConnectingRef, statusVars, stalePolls>>
    /\ UNCHANGED mediaVars

createAnswer_gathered(t) ==
    /\ tasks[t].op = "createAnswer"
    /\ tasks[t].st = "wait"
    /\ GatheredNow(conns)
    /\ createAnswer_return(t)
    /\ UNCHANGED <<lifecycle, transportVars, iceCandidatesRef, isActivelyConnectingRef,
                   statusVars, stalePolls>>
    /\ UNCHANGED mediaVars

createAnswer_timeout(t) ==
    /\ tasks[t].op = "createAnswer"
    /\ tasks[t].st = "wait"
    /\ stalePolls' = LeftPolling(stalePolls)
    /\ createAnswer_return(t)
    /\ UNCHANGED <<lifecycle, transportVars, iceCandidatesRef, isActivelyConnectingRef,
                   statusVars>>
    /\ UNCHANGED mediaVars

\* -------------------------------------------------------------------- media
\* startCamera up to its await: getUserMedia is requested.
startCamera ==
    /\ lifecycle # "unmounted"
    /\ capturing < MaxCaptures
    /\ nextStream + capturing < MaxStreams
    /\ capturing' = capturing + 1
    /\ UNCHANGED <<hookVars, localStream, isCameraOn, isMicOn, mediaTracks, nextStream,
                   senders, lastCapture>>

\* A connection takes tracks only while it is open: addTrack on a closed
\* connection throws.
AddTracks(sn, stream) ==
    IF peerConnectionRef # 0 /\ conns[peerConnectionRef].open
    THEN [sn EXCEPT ![peerConnectionRef] = @ \cup {stream}]
    ELSE sn

\* startCamera that shows camera and microphone as on without reading the
\* tracks.
startCamera_granted_assumeOn(video, audio) ==
    /\ lifecycle # "unmounted"
    /\ capturing > 0
    /\ capturing' = capturing - 1
    /\ nextStream' = nextStream + 1
    /\ mediaTracks' = [mediaTracks EXCEPT ![nextStream + 1] =
                          [video |-> video, audio |-> audio, stopped |-> FALSE]]
    /\ localStream' = nextStream + 1
    /\ isCameraOn' = TRUE
    /\ isMicOn' = TRUE
    /\ senders' = AddTracks(senders, nextStream + 1)
    /\ lastCapture' = "ok"
    /\ UNCHANGED hookVars

\* getUserMedia resolves with a new stream whose tracks the capture provider
\* hands out enabled or disabled: the stream is held, the flags are read from
\* its tracks, the tracks are added to the current connection.
startCamera_granted(video, audio) ==
    /\ lifecycle # "unmounted"
    /\ capturing > 0
    /\ capturing' = capturing - 1
    /\ nextStream' = nextStream + 1
    /\ mediaTracks' = [mediaTracks EXCEPT ![nextStream + 1] =
                          [video |-> video, audio |-> audio, stopped |-> FALSE]]
    /\ localStream' = nextStream + 1
    /\ isCameraOn' = video
    /\ isMicOn' = audio
    /\ senders' = AddTracks(senders, nextStream + 1)
    /\ lastCapture' = "ok"
    /\ UNCHANGED hookVars

\* getUserMedia rejects: startCamera rethrows and changes nothing.
startCamera_denied ==
    /\ capturing > 0
    /\ capturing' = capturing - 1
    /\ lastCapture' = "thrown"
    /\ UNCHANGED <<hookVars, localStream, isCameraOn, isMicOn, mediaTracks, nextStream,
                   senders>>

\* What stopCamera does to the capture state.
stopCamera_run ==
    /\ IF localStream # 0
       THEN /\ mediaTracks' = [mediaTracks EXCEPT ![localStream].stopped = TRUE]
            /\ localStream' = 0
       ELSE UNCHANGED <<mediaTracks, localStream>>
    /\ isCameraOn' = FALSE
    /\ isMicOn' = FALSE
    /\ lastCapture' = "ok"
    /\ UNCHANGED <<nextStream, capturing, senders>>

stopCamera ==
    /\ lifecycle # "unmounted"
    /\ stopCamera_run
    /\ UNCHANGED hookVars

\* toggleCamera that flips the boolean whether or not a stream is held.
toggleCamera_blind ==
    /\ lifecycle # "unmounted"
    /\ mediaTracks' = IF localStream # 0
                      THEN [mediaTracks EXCEPT ![localStream].video = ~@]
                      ELSE mediaTracks
    /\ isCameraOn' = ~isCameraOn
    /\ lastCapture' = "ok"
    /\ UNCHANGED <<hookVars, localStream, isMicOn, nextStream, capturing, senders>>

\* With a stream held the video track and the boolean are flipped together;
\* with none the call warns and returns.
toggleCamera ==
    /\ lifecycle # "unmounted"
    /\ IF localStream # 0
       THEN /\ mediaTracks' = [mediaTracks EXCEPT ![localStream].video = ~@]
            /\ isCameraOn' = ~mediaTracks[localStream].video
            /\ lastCapture' = "ok"
       ELSE /\ lastCapture' = "warned"
            /\ UNCHANGED <<mediaTracks, isCameraOn>>
    /\ UNCHANGED <<hookVars, localStream, isMicOn, nextStream, capturing, senders>>

toggleMic ==
    /\ lifecycle # "unmounted"
    /\ IF localStream # 0
       THEN /\ mediaTracks' = [mediaTracks EXCEPT ![localStream].audio = ~@]
            /\ isMicOn' = ~mediaTracks[localStream].audio
            /\ lastCapture' = "ok"
       ELSE /\ lastCapture' = "warned"
            /\ UNCHANGED <<mediaTracks, isMicOn>>
    /\ UNCHANGED <<hookVars, localStream, isCameraOn, nextStream, capturing, senders>>

Next ==
    \/ Mount /\ UNCHANGED pageVars
    \/ Unmount /\ UNCHANGED pageVars
    \/ resetConnection /\ UNCHANGED pageVars
    \/ \E h \in Handles, s \in {"connecting", "connected", "disconnected", "failed"} :
          onconnectionstatechange(h, s) /\ UNCHANGED pageVars
    \/ \E h \in Handles : oniceconnectionstatechange(h) /\ UNCHANGED pageVars
    \/ \E h \in Handles : ontrack(h) /\ UNCHANGED pageVars
    \/ \E h \in Handles : onicecandidate(h) /\ UNCHANGED pageVars
    \/ \E h \in Handles : onicegatheringstatechange(h) /\ UNCHANGED pageVars
    \/ \E t \in Tasks : createOffer(t) /\ UNCHANGED pageVars
    \/ \E t \in Tasks : createOffer_created(t) /\ UNCHANGED pageVars
    \/ \E t \in Tasks : createOffer_localSet(t) /\ UNCHANGED pageVars
    \/ \E t \in Tasks : createOffer_gathered(t) /\ UNCHANGED pageVars
    \/ \E t \in Tasks : createOffer_timeout(t) /\ UNCHANGED pageVars
    \/ checkIceGathering_stale /\ UNCHANGED pageVars
    \/ \E t \in Tasks, d \in SignalingData : handleAnswer(t, d) /\ UNCHANGED pageVars
    \/ \E t \in Tasks, ok \in BOOLEAN : handleAnswer_remoteSet(t, ok) /\ UNCHANGED pageVars
    \/ \E t \in Tasks, ok \in BOOLEAN :
          handleAnswer_candidateAdded(t, ok) /\ UNCHANGED pageVars
    \/ \E t \in Tasks, d \in SignalingData : createAnswer(t, d) /\ UNCHANGED pageVars
    \/ \E t \in Tasks, ok \in BOOLEAN : createAnswer_remoteSet(t, ok) /\ UNCHANGED pageVars
    \/ \E t \in Tasks, ok \in BOOLEAN :
          createAnswer_candidateAdded(t, ok) /\ UNCHANGED pageVars
    \/ \E t \in Tasks : createAnswer_created(t) /\ UNCHANGED pageVars
    \/ \E t \in Tasks : createAnswer_localSet(t) /\ UNCHANGED pageVars
    \/ \E t \in Tasks : createAnswer_gathered(t) /\ UNCHANGED pageVars
    \/ \E t \in Tasks : createAnswer_timeout(t) /\ UNCHANGED pageVars

Spec == Init /\ [][Next]_vars

\* The 2000 ms timer of a gathering wait fires unless the wait was resolved
\* before: a pending setTimeout callback always runs.
TimersFire ==
    \A t \in Tasks : /\ WF_vars(createOffer_timeout(t) /\ UNCHANGED pageVars)
                      /\ WF_vars(createAnswer_timeout(t) /\ UNCHANGED pageVars)

\* The calls that wait for gathering, with every step that changes the
\* current connection, a connection's gathering state, the accumulator or the
\* polls.  handleAnswer, ontrack and the connection-state observers read and
\* write none of these.
NextGathering ==
    \/ Mount /\ UNCHANGED pageVars
    \/ Unmount /\ UNCHANGED pageVars
    \/ resetConnection /\ UNCHANGED pageVars
    \/ \E h \in Handles : onicecandidate(h) /\ UNCHANGED pageVars
    \/ \E h \in Handles : onicegatheringstatechange(h) /\ UNCHANGED pageVars
    \/ \E t \in Tasks : createOffer(t) /\ UNCHANGED pageVars
    \/ \E t \in Tasks : createOffer_created(t) /\ UNCHANGED pageVars
    \/ \E t \in Tasks : createOffer_localSet(t) /\ UNCHANGED pageVars
    \/ \E t \in Tasks : createOffer_gathered(t) /\ UNCHANGED pageVars
    \/ \E t \in Tasks : createOffer_timeout(t) /\ UNCHANGED pageVars
    \/ checkIceGathering_stale /\ UNCHANGED pageVars
    \/ \E t \in Tasks, d \in SignalingData : createAnswer(t, d) /\ UNCHANGED pageVars
    \/ \E t \in Tasks, ok \in BOOLEAN : createAnswer_remoteSet(t, ok) /\ UNCHANGED pageVars
    \/ \E t \in Tasks, ok \in BOOLEAN :
          createAnswer_candidateAdded(t, ok) /\ UNCHANGED pageVars
    \/ \E t \in Tasks : createAnswer_created(t) /\ UNCHANGED pageVars
    \/ \E t \in Tasks : createAnswer_localSet(t) /\ UNCHANGED pageVars
    \/ \E t \in Tasks : createAnswer_gathered(t) /\ UNCHANGED pageVars
    \/ \E t \in Tasks : createAnswer_timeout(t) /\ UNCHANGED pageVars

SpecTimers == Init /\ [][NextGathering]_vars /\ TimersFire

\* The capture functions together with the connection lifecycle; no
\* negotiation function reads or writes what they change.
NextMedia ==
    \/ Mount /\ UNCHANGED pageVars
    \/ Unmount /\ UNCHANGED pageVars
    \/ resetConnection /\ UNCHANGED pageVars
    \/ startCamera /\ UNCHANGED pageVars
    \/ \E video, audio \in BOOLEAN : startCamera_granted(video, audio) /\ UNCHANGED pageVars
    \/ startCamera_denied /\ UNCHANGED pageVars
    \/ stopCamera /\ UNCHANGED pageVars
    \/ toggleCamera /\ UNCHANGED pageVars
    \/ toggleMic /\ UNCHANGED pageVars

SpecMedia == Init /\ [][NextMedia]_vars

\* --------------------------------------------------------------------- page
\* The page Home that uses the hook: its handlers call the hook's functions,
\* and it renders again after every change of state.
CallBegins(t, op) ==
    tasks[t].st = "idle" /\ tasks'[t].st # "idle" /\ tasks'[t].op = op
CallEnds(t, op) ==
    /\ tasks'[t].op = op
    /\ tasks[t].st \notin {"resolved", "rejected"}
    /\ tasks'[t].st \in {"resolved", "rejected"}
CallResolves(t, op) == CallEnds(t, op) /\ tasks'[t].st = "resolved"

\* The rule run at every render: a connected hook moves the page to the
\* connected view.
Render(state, connected) ==
    IF connected /\ state # "connected" THEN "connected" ELSE state

\* A page whose handleCreateAnswer moves to the connected view as soon as the
\* answer is created.
PageFollows_autoConnect ==
    /\ isCreatingOffer' = IF \E t \in Tasks : CallEnds(t, "createOffer") THEN FALSE
                          ELSE IF \E t \in Tasks : CallBegins(t, "createOffer") THEN TRUE
                          ELSE isCreatingOffer
    /\ offerData' = IF \E t \in Tasks : CallResolves(t, "createOffer")
                    THEN CHOOSE t \in Tasks : CallResolves(t, "createOffer")
                    ELSE offerData
    /\ isCreatingAnswer' = IF \E t \in Tasks : CallEnds(t, "createAnswer") THEN FALSE
                           ELSE IF \E t \in Tasks : CallBegins(t, "createAnswer") THEN TRUE
                           ELSE isCreatingAnswer
    /\ answerData' = IF \E t \in Tasks : CallResolves(t, "createAnswer")
                     THEN CHOOSE t \in Tasks : CallResolves(t, "createAnswer")
                     ELSE answerData
    /\ appState' = Render(IF \E t \in Tasks : \/ CallResolves(t, "handleAnswer")
                                              \/ CallResolves(t, "createAnswer")
                          THEN "connected" ELSE appState, isConnected')
    /\ everConnected' = (everConnected \/ isConnected')
    /\ UNCHANGED role

\* What the page does when a step of the hook ends: the rest of the handler
\* that awaited the call (handleCreateOffer, handleCreateAnswer,
\* handleHandleAnswer: the flag set before the call, the payload kept or the
\* view changed after it, the flag cleared in finally), then the render.
PageFollows ==
    /\ isCreatingOffer' = IF \E t \in Tasks : CallEnds(t, "createOffer") THEN FALSE
                          ELSE IF \E t \in Tasks : CallBegins(t, "createOffer") THEN TRUE
                          ELSE isCreatingOffer
    /\ offerData' = IF \E t \in Tasks : CallResolves(t, "createOffer")
                    THEN CHOOSE t \in Tasks : CallResolves(t, "createOffer")
                    ELSE offerData
    /\ isCreatingAnswer' = IF \E t \in Tasks : CallEnds(t, "createAnswer") THEN FALSE
                           ELSE IF \E t \in Tasks : CallBegins(t, "createAnswer") THEN TRUE
                           ELSE isCreatingAnswer
    /\ answerData' = IF \E t \in Tasks : CallResolves(t, "createAnswer")
                     THEN CHOOSE t \in Tasks : CallResolves(t, "createAnswer")
                     ELSE answerData
    /\ appState' = Render(IF \E t \in Tasks : CallResolves(t, "handleAnswer")
                          THEN "connected" ELSE appState, isConnected')
    /\ everConnected' = (everConnected \/ isConnected')
    /\ UNCHANGED role

\* setAppState(state) in a handler that changes nothing else of the page.
SetAppState(state) ==
    /\ appState' = Render(state, isConnected')
    /\ everConnected' = (everConnected \/ isConnected')
    /\ UNCHANGED <<role, offerData, answerData, isCreatingOffer, isCreatingAnswer>>

\* What the page shows: a LoadingScreen while the camera starts or the hook is
\* connecting, else the view of appState.
LoadingScreen == appState = "starting-camera" \/ isConnecting
View(state) == lifecycle = "mounted" /\ ~LoadingScreen /\ appState = state
\* The ready, signaling and connected views hold the ControlButtons.
ControlButtons == \E state \in {"ready", "signaling", "connected"} : View(state)
\* SignalingInterface offers the two roles while the role it is given is
\* null: the ready view always passes null, the signaling view the page's role.
RoleButtons == View("ready") \/ (View("signaling") /\ role = "none")

\* handleStartCamera up to its await; the Start Camera button of the idle view.
handleStartCamera ==
    /\ View("idle")
    /\ startCamera
    /\ SetAppState("starting-camera")

handleStartCamera_granted(video, audio) ==
    /\ startCamera_granted(video, audio)
    /\ SetAppState("ready")

handleStartCamera_denied ==
    /\ startCamera_denied
    /\ SetAppState("idle")

\* A SignalingInterface that keeps offering the roles in the signaling view.
handleSetRole_anytime(selectedRole) ==
    /\ View("ready") \/ View("signaling")
    /\ role' = selectedRole
    /\ appState' = Render("signaling", isConnected)
    /\ UNCHANGED <<hookVars, mediaVars, offerData, answerData, isCreatingOffer,
                   isCreatingAnswer, everConnected>>

handleSetRole(selectedRole) ==
    /\ RoleButtons
    /\ role' = selectedRole
    /\ appState' = Render("signaling", isConnected)
    /\ UNCHANGED <<hookVars, mediaVars, offerData, answerData, isCreatingOffer,
                   isCreatingAnswer, everConnected>>

\* The Create Offer button: shown to the caller while no offer is held,
\* disabled while an offer is being created.
handleCreateOffer(t) ==
    /\ View("signaling")
    /\ role = "caller"
    /\ offerData = 0
    /\ ~isCreatingOffer
    /\ createOffer(t)
    /\ PageFollows

\* handleSubmitOffer with input that parses as data; the callee's button is
\* disabled while an answer is being created.
handleCreateAnswer(t, data) ==
    /\ View("signaling")
    /\ role = "callee"
    /\ ~isCreatingAnswer
    /\ createAnswer(t, data)
    /\ PageFollows

\* handleSubmitAnswer with input that parses as data; shown to the caller
\* once an offer is held.
handleHandleAnswer(t, data) ==
    /\ View("signaling")
    /\ role = "caller"
    /\ offerData # 0
    /\ handleAnswer(t, data)
    /\ PageFollows

\* The End Call button of the ControlButtons.
handleEndCall ==
    /\ ControlButtons
    /\ resetConnection_run
    /\ stopCamera_run
    /\ appState' = Render("idle", isConnected')
    /\ role' = "none"
    /\ offerData' = 0
    /\ answerData' = 0
    /\ everConnected' = FALSE
    /\ UNCHANGED <<isCreatingOffer, isCreatingAnswer>>

\* The page while it is mounted: the user's clicks and the steps of the
\* transport and of the calls in progress, each followed by a render.  The
\* capture provider hands out enabled tracks here, and the two toggles of the
\* ControlButtons are left to NextMedia: they change the tracks and the two
\* booleans only, which no handler of the page reads.
NextPage ==
    \/ Mount /\ PageFollows
    \/ handleStartCamera
    \/ handleStartCamera_granted(TRUE, TRUE)
    \/ handleStartCamera_denied
    \/ \E selectedRole \in {"caller", "callee"} : handleSetRole(selectedRole)
    \/ \E t \in Tasks : handleCreateOffer(t)
    \/ \E t \in Tasks, d \in SignalingData : handleCreateAnswer(t, d)
    \/ \E t \in Tasks, d \in SignalingData : handleHandleAnswer(t, d)
    \/ handleEndCall
    \/ \E h \in Handles, s \in {"connecting", "connected", "disconnected", "failed"} :
          onconnectionstatechange(h, s) /\ PageFollows
    \/ \E h \in Handles : oniceconnectionstatechange(h) /\ PageFollows
    \/ \E h \in Handles : ontrack(h) /\ PageFollows
    \/ \E h \in Handles : onicecandidate(h) /\ PageFollows
    \/ \E h \in Handles : onicegatheringstatechange(h) /\ PageFollows
    \/ \E t \in Tasks : createOffer_created(t) /\ PageFollows
    \/ \E t \in Tasks : createOffer_localSet(t) /\ PageFollows
    \/ \E t \in Tasks : createOffer_gathered(t) /\ PageFollows
    \/ \E t \in Tasks : createOffer_timeout(t) /\ PageFollows
    \/ checkIceGathering_stale /\ PageFollows
    \/ \E t \in Tasks, ok \in BOOLEAN : handleAnswer_remoteSet(t, ok) /\ PageFollows
    \/ \E t \in Tasks, ok \in BOOLEAN : handleAnswer_candidateAdded(t, ok) /\ PageFollows
    \/ \E t \in Tasks, ok \in BOOLEAN : createAnswer_remoteSet(t, ok) /\ PageFollows
    \/ \E t \in Tasks, ok \in BOOLEAN : createAnswer_candidateAdded(t, ok) /\ PageFollows
    \/ \E t \in Tasks : createAnswer_created(t) /\ PageFollows
    \/ \E t \in Tasks : createAnswer_localSet(t) /\ PageFollows
    \/ \E t \in Tasks : createAnswer_gathered(t) /\ PageFollows
    \/ \E t \in Tasks : createAnswer_timeout(t) /\ PageFollows

SpecPage == Init /\ [][NextPage]_vars

\* ------------------------------------------------------------------ claims
Done == {"idle", "resolved", "rejected"}
OpenHandles == {h \in Handles : conns[h].open}
\* Task t is called in this step and gets past the null check.
Called(t, op) == tasks[t].st = "idle" /\ tasks'[t].op = op /\ tasks'[t].st # "rejected"
\* Task t returns in this step.
Returns(t) == tasks[t].st \notin Done /\ tasks'[t].st = "resolved"

\* C1: at most one peer connection is open at any time, it is the current
\* one, and while the hook is in use the current one is open: every earlier
\* connection was closed before its successor became current.
C1_OneOpenHandle ==
    /\ Cardinality(OpenHandles) <= 1
    /\ OpenHandles \subseteq {peerConnectionRef}
    /\ (lifecycle # "unmounted" /\ peerConnectionRef # 0)
          => OpenHandles = {peerConnectionRef}
    /\ \A h \in Handles : h > nextHandle => ~conns[h].open
C1_Witness ==
    /\ nextHandle = MaxHandles
    /\ lifecycle = "mounted"
    /\ OpenHandles = {MaxHandles}

\* C2 as stated: isConnecting only if activelyConnecting and the published
\* transport state is 'connecting'.
C2_ConnectingOnlyWhenRawConnecting ==
    isConnecting => (isActivelyConnectingRef /\ connectionState = "connecting")
\* C2, amended: isConnecting only if activelyConnecting (handleAnswer shows
\* it before the transport has reported 'connecting').
C2_ConnectingOnlyWhenActive == isConnecting => isActivelyConnectingRef
C2_Witness ==
    /\ isConnecting
    /\ connectionState = "connecting"
    /\ \E t \in Tasks : tasks[t].op = "handleAnswer" /\ tasks[t].st = "resolved"

\* C3: while a createAnswer call runs on its own, no step other than the
\* call of handleAnswer turns isConnecting on.
C3_CreateAnswerNeverConnecting ==
    [][\A t \in Tasks :
          (/\ tasks[t].op = "createAnswer"
           /\ Running(tasks[t])
           /\ tasks[t].solo
           /\ ~isConnecting
           /\ ~\E u \in Tasks : Called(u, "handleAnswer"))
          => ~isConnecting']_vars

\* C4: when a createOffer call returns, isConnecting is false (stated for
\* calls that were all made on the one session the hook is on).
C4_OfferLeavesNotConnecting ==
    [][\A t \in Tasks :
          (/\ tasks[t].op = "createOffer"
           /\ Returns(t)
           /\ \A u \in Tasks :
                 tasks[u].op # "none" => tasks[u].h0 = peerConnectionRef)
          => ~isConnecting']_vars

\* C5: the call of handleAnswer sets the flag and isConnecting and leaves the
\* transport as it is; the remote description is committed by a later step,
\* for a call that was already awaiting setRemoteDescription.
C5_PublishesBeforeCommit ==
    [][\A t \in Tasks :
          /\ Called(t, "handleAnswer")
                => (isConnecting' /\ isActivelyConnectingRef' /\ conns' = conns)
          /\ (/\ tasks[t].op = "handleAnswer"
              /\ tasks[t].st = "setRemoteDescription"
              /\ tasks'[t].st \in {"addIceCandidate", "resolved"})
                => conns[tasks[t].h].remoteDescription
                      # conns'[tasks[t].h].remoteDescription
                   \/ conns[tasks[t].h].signalingState
                      # conns'[tasks[t].h].signalingState]_vars
C5_Witness ==
    \E t \in Tasks :
        /\ tasks[t].op = "handleAnswer"
        /\ tasks[t].st \in {"addIceCandidate", "resolved"}
        /\ conns[tasks[t].h0].remoteDescription = tasks[t].data.sdp
        /\ conns[tasks[t].h0].connectionState = "new"
        /\ isConnecting

\* C6: a step in which the transport reports connected, disconnected or
\* failed leaves isConnecting false and activelyConnecting cleared.
C6_TerminalStateClearsConnecting ==
    [][\A h \in Handles :
          (/\ conns'[h].connectionState # conns[h].connectionState
           /\ conns'[h].connectionState \in {"connected", "disconnected", "failed"})
          => (~isConnecting' /\ ~isActivelyConnectingRef')]_vars
C6_Witness ==
    /\ connectionState \in {"disconnected", "failed"}
    /\ ~isConnecting
    /\ ~isActivelyConnectingRef
    /\ \E t \in Tasks : tasks[t].op = "handleAnswer" /\ tasks[t].st = "resolved"

\* C7: a handleAnswer whose session holds no local offer (as the session
\* reset() opened after a createOffer) is rejected when its
\* setRemoteDescription settles, and nothing is applied to that session.
C7_AnswerWithoutOfferRejected ==
    [][\A t \in Tasks :
          (/\ tasks[t].op = "handleAnswer"
           /\ tasks[t].st = "setRemoteDescription"
           /\ tasks'[t].st # "setRemoteDescription"
           /\ conns[tasks[t].h].localDescription.kind # "offer")
          => (tasks'[t].st = "rejected" /\ conns' = conns)]_vars
C7_Witness ==
    \E t, u \in Tasks :
        /\ t < u
        /\ tasks[t].op = "createOffer" /\ tasks[t].st = "resolved"
        /\ tasks[u].op = "handleAnswer" /\ tasks[u].st = "rejected"
        /\ tasks[u].solo
        /\ tasks[u].data.type = "answer"
        /\ tasks[u].h0 > tasks[t].h0
        /\ conns[tasks[u].h0].remoteDescription = NoSdp

\* C8: a call returns a payload only on the session it was called on.
C8_NoReturnAfterReset ==
    [][\A t \in Tasks : Returns(t) => tasks[t].h0 = peerConnectionRef']_vars

\* C9: a handleAnswer call whose payload is not of type answer commits no
\* description and does not return normally.
C9_HandleAnswerRejectsNonAnswer ==
    \A t \in Tasks :
        (tasks[t].op = "handleAnswer" /\ tasks[t].solo /\ tasks[t].data.type # "answer")
        => tasks[t].st \notin {"addIceCandidate", "resolved"}

\* C10: a createAnswer call whose payload is not of type offer commits no
\* description and returns no answer payload.
C10_CreateAnswerRejectsNonOffer ==
    \A t \in Tasks :
        (tasks[t].op = "createAnswer" /\ tasks[t].data.type # "offer")
        => tasks[t].st \in {"setRemoteDescription", "rejected"}
\* C11: a call of createOffer, createAnswer or handleAnswer made while another
\* call is in flight on the session the hook is on is rejected with
\* NegotiationInProgress.
C11_ReentrantCallRejected ==
    [][\A u \in Tasks :
          (/\ tasks[u].st = "idle"
           /\ tasks'[u].op # "none"
           /\ \E t \in Tasks : Running(tasks[t]) /\ tasks[t].h0 = peerConnectionRef)
          => (tasks'[u].st = "rejected" /\ tasks'[u].err = "NegotiationInProgress")]_vars

\* C12: the step in which a handleAnswer call throws because
\* setRemoteDescription or addIceCandidate failed leaves activelyConnecting
\* and isConnecting false, carries the error, and leaves the candidates that
\* were applied before in place.
C12_FailedAnswerClearsConnecting ==
    [][\A t \in Tasks :
          (/\ tasks[t].op = "handleAnswer"
           /\ tasks[t].st \in {"setRemoteDescription", "addIceCandidate"}
           /\ tasks'[t].st = "rejected")
          => (/\ ~isActivelyConnectingRef'
              /\ ~isConnecting'
              /\ tasks'[t].err # "none"
              /\ conns' = conns)]_vars

\* C13: the step in which a createAnswer call returns or throws leaves
\* isCreatingAnswerRef false, and the flag is true only while some createAnswer
\* call has neither returned nor thrown.
C13_CreatingAnswerOnlyInProgress ==
    /\ [](isCreatingAnswerRef
            => \E t \in Tasks : tasks[t].op = "createAnswer" /\ tasks[t].st \notin Done)
    /\ [][\A t \in Tasks :
             (/\ tasks'[t].op = "createAnswer"
              /\ tasks[t].st \notin {"resolved", "rejected"}
              /\ tasks'[t].st \in {"resolved", "rejected"})
             => ~isCreatingAnswerRef']_vars
C13_Witness ==
    /\ ~isCreatingAnswerRef
    /\ \E t, u \in Tasks :
          /\ tasks[t].op = "createAnswer" /\ tasks[t].st = "rejected"
          /\ tasks[t].err = "CandidateRejected"
          /\ tasks[u].op = "createAnswer" /\ tasks[u].st = "resolved"

\* C14: the call step of createOffer and of createAnswer leaves the
\* accumulator empty, and a returned payload holds no candidate that was
\* discovered before its call began.
C14_PayloadHoldsNoEarlierCandidate ==
    /\ [][\A t \in Tasks :
             (Called(t, "createOffer") \/ Called(t, "createAnswer"))
             => iceCandidatesRef' = <<>>]_vars
    /\ [](\A t \in Tasks :
             (tasks[t].op \in {"createOffer", "createAnswer"} /\ tasks[t].st = "resolved")
             => \A i \in 1..Len(tasks[t].result.iceCandidates) :
                   tasks[t].result.iceCandidates[i] \notin tasks[t].before)
C14_Witness ==
    \E t, u \in Tasks :
        /\ t < u
        /\ tasks[t].op = "createOffer" /\ tasks[t].st = "resolved"
        /\ tasks[t].result.iceCandidates # <<>>
        /\ tasks[u].op = "createOffer" /\ tasks[u].st = "resolved"
        /\ tasks[u].h0 = tasks[t].h0
        /\ tasks[u].before # {}
        /\ tasks[u].result.iceCandidates = <<>>

\* C15: the candidate list of a payload that was returned never changes.
C15_PayloadIsSnapshot ==
    [][\A t \in Tasks :
          tasks[t].st = "resolved"
          => tasks'[t].result.iceCandidates = tasks[t].result.iceCandidates]_vars
\* C16: a gathering wait ends with the call returning its payload, whatever
\* the transport does; no step takes a waiting call to an error.
C16_GatheringWaitEnds ==
    /\ \A t \in Tasks : (tasks[t].st = "wait") ~> (tasks[t].st = "resolved")
    /\ [][\A t \in Tasks :
             tasks[t].st = "wait" => tasks'[t].st \in {"wait", "resolved"}]_vars
C16_Witness ==
    \E t \in Tasks :
        /\ tasks[t].op = "createOffer"
        /\ tasks[t].st = "resolved"
        /\ tasks[t].h0 = nextHandle
        /\ conns[tasks[t].h0].iceGatheringState = "gathering"
        /\ stalePolls > 0

\* C17: resetConnection can be called in every state of a hook in use, and
\* the step leaves the previous connection closed, remoteStream absent,
\* isConnected and isConnecting false, connectionState 'new', both flags false,
\* and a fresh connection with an empty accumulator current.
C17_ResetLeavesFreshSession ==
    /\ []((lifecycle # "unmounted" /\ nextHandle < MaxHandles) => ENABLED resetConnection)
    /\ [][(nextHandle' # nextHandle /\ lifecycle' = lifecycle)
            => (/\ peerConnectionRef # 0 => ~conns'[peerConnectionRef].open
                /\ remoteStream' = 0
                /\ ~isConnected'
                /\ ~isConnecting'
                /\ connectionState' = "new"
                /\ ~isActivelyConnectingRef'
                /\ ~isCreatingAnswerRef'
                /\ peerConnectionRef' = nextHandle'
                /\ peerConnectionRef' # peerConnectionRef
                /\ conns'[peerConnectionRef'] = NewConnection
                /\ chain'[peerConnectionRef'] = <<>>
                /\ iceCandidatesRef' = <<>>)]_vars
C17_Witness ==
    /\ lifecycle = "mounted"
    /\ tasks[1].op = "handleAnswer"
    /\ tasks[1].st = "setRemoteDescription"
    /\ ~conns[tasks[1].h].open
    /\ tasks[2].st = "idle"
    /\ conns[peerConnectionRef] = NewConnection
    /\ iceCandidatesRef = <<>>
    /\ ~isConnecting
    /\ ~isActivelyConnectingRef

\* C18: after a handleAnswer or a createAnswer call completed on a session,
\* no later call on that session runs another round to its end.
C18_NegotiatedIsTerminal ==
    \A t, u \in Tasks :
        (/\ t < u
         /\ tasks[t].op \in {"handleAnswer", "createAnswer"}
         /\ tasks[t].st = "resolved"
         /\ tasks[t].solo
         /\ tasks[u].solo
         /\ tasks[u].h0 = tasks[t].h0
         /\ lifecycle = "mounted"
         /\ nextHandle = 1)
        => tasks[u].st # "resolved"
\* C19: a step in which the transport reports failed or disconnected, as
\* connection state or as ICE connection state, creates no connection and
\* starts or resumes no call; only resetConnection and the mount effect create
\* a connection.
C19_NoRetryOnFailure ==
    [][/\ \A h \in Handles :
            (/\ conns[h].open
             /\ \/ /\ conns'[h].connectionState # conns[h].connectionState
                   /\ conns'[h].connectionState \in {"failed", "disconnected"}
                \/ /\ conns'[h].iceConnectionState # conns[h].iceConnectionState
                   /\ conns'[h].iceConnectionState \in {"failed", "disconnected"})
            => (/\ nextHandle' = nextHandle
                /\ peerConnectionRef' = peerConnectionRef
                /\ tasks' = tasks
                /\ chain' = chain)
       /\ nextHandle' # nextHandle => (resetConnection \/ Mount)]_vars
C19_Witness ==
    /\ lifecycle = "mounted"
    /\ nextHandle = 1
    /\ conns[1].open
    /\ conns[1].connectionState = "failed"
    /\ conns[1].iceConnectionState = "failed"
    /\ connectionState = "failed"
    /\ \A t \in Tasks : ~Running(tasks[t])

\* C20: isCameraOn (isMicOn) is the enabled flag of the video (audio) track
\* of the stream held, and false when no stream is held.
C20_FlagsMirrorTracks ==
    /\ isCameraOn = (localStream # 0 /\ mediaTracks[localStream].video)
    /\ isMicOn = (localStream # 0 /\ mediaTracks[localStream].audio)
C20_Witness ==
    /\ localStream = 2
    /\ mediaTracks[1].stopped
    /\ ~isCameraOn
    /\ isMicOn
    /\ capturing = 0

\* C22: a call of createOffer, createAnswer or handleAnswer made while
\* peerConnectionRef is null throws NotInitialized and leaves the accumulator,
\* both flags, the published status and the transport as they were.
C22_NotInitializedChangesNothing ==
    [][\A t \in Tasks :
          (/\ tasks[t].st = "idle"
           /\ tasks'[t].op \in {"createOffer", "createAnswer", "handleAnswer"}
           /\ peerConnectionRef = 0)
          => (/\ tasks'[t].st = "rejected"
              /\ tasks'[t].err = "NotInitialized"
              /\ UNCHANGED <<iceCandidatesRef, flagVars, statusVars, transportVars>>)]_vars
C22_Witness ==
    /\ peerConnectionRef = 0
    /\ \E t, u \in Tasks :
          /\ tasks[t].op = "handleAnswer" /\ tasks[t].err = "NotInitialized"
          /\ tasks[u].op = "createAnswer" /\ tasks[u].err = "NotInitialized"
    /\ ~isConnecting
    /\ ~isActivelyConnectingRef

\* C23: a step in which the transport reports connecting turns isConnecting
\* on if isActivelyConnectingRef is set, and leaves it as it is otherwise.
C23_ConnectingShownOnlyWhenActive ==
    [][\A h \in Handles :
          (/\ conns'[h].connectionState # conns[h].connectionState
           /\ conns'[h].connectionState = "connecting")
          => IF isActivelyConnectingRef
             THEN isConnecting'
             ELSE isConnecting' = isConnecting]_vars
C23_Witness ==
    /\ connectionState = "connecting"
    /\ ~isConnecting
    /\ peerConnectionRef # 0
    /\ conns[peerConnectionRef].connectionState = "connecting"
    /\ \E t \in Tasks : tasks[t].op = "createAnswer" /\ tasks[t].st = "resolved"

\* C24: a call applies candidate 1 only in the step after its
\* setRemoteDescription succeeded and candidate i+1 only in the step after its
\* candidate i was applied; a connection's applied candidates change only by
\* the candidate a call awaits being appended, with a remote description in
\* place.
C24_CandidatesInListedOrder ==
    [][/\ \A t \in Tasks :
            (/\ tasks'[t].st = "addIceCandidate"
             /\ tasks[t].st # "addIceCandidate" \/ tasks'[t].i # tasks[t].i)
            => \/ /\ tasks[t].st = "setRemoteDescription"
                  /\ tasks'[t].i = 1
                  /\ conns'[tasks[t].h].remoteDescription = tasks[t].data.sdp
               \/ /\ tasks[t].st = "addIceCandidate"
                  /\ tasks'[t].i = tasks[t].i + 1
                  /\ conns'[tasks[t].h].remoteCandidates =
                        Append(conns[tasks[t].h].remoteCandidates,
                               tasks[t].data.iceCandidates[tasks[t].i])
       /\ \A h \in Handles :
            conns'[h].remoteCandidates # conns[h].remoteCandidates
            => \E t \in Tasks :
                  /\ tasks[t].st = "addIceCandidate"
                  /\ tasks[t].h = h
                  /\ conns[h].remoteDescription # NoSdp
                  /\ conns'[h].remoteCandidates =
                        Append(conns[h].remoteCandidates,
                               tasks[t].data.iceCandidates[tasks[t].i])]_vars
C24_Witness ==
    \E t \in Tasks :
        /\ tasks[t].op = "handleAnswer" /\ tasks[t].st = "resolved"
        /\ Len(tasks[t].data.iceCandidates) = NumRemoteCands
        /\ conns[tasks[t].h0].remoteDescription = tasks[t].data.sdp
        /\ conns[tasks[t].h0].remoteCandidates = tasks[t].data.iceCandidates

\* C27: isConnected is true exactly when the published connectionState is
\* 'connected'.
C27_ConnectedIffStateConnected == isConnected <=> (connectionState = "connected")
C27_Witness ==
    /\ ~isConnected
    /\ connectionState = "disconnected"
    /\ remoteStream # 0
    /\ \E t \in Tasks : tasks[t].op = "handleAnswer" /\ tasks[t].st = "resolved"

\* C28: isConnected and isConnecting are never both true.
C28_NotConnectedAndConnecting == ~(isConnected /\ isConnecting)

\* C21: toggleCamera or toggleMic called with no stream held does not throw
\* and changes nothing: the call only warns.
C21_ToggleWithoutStreamIsNoOp ==
    [][((toggleCamera \/ toggleMic) /\ localStream = 0)
          => (/\ lastCapture' = "warned"
              /\ ~isCameraOn' /\ ~isMicOn'
              /\ UNCHANGED <<hookVars, localStream, isCameraOn, isMicOn, mediaTracks,
                             nextStream, capturing, senders>>)]_vars
C21_Witness ==
    /\ lastCapture = "warned"
    /\ localStream = 0
    /\ mediaTracks[1].stopped
    /\ ~isCameraOn
    /\ ~isMicOn

\* C30: whenever a stream is held and a connection is current, the stream's
\* tracks are among those the current connection sends.
C30_TracksBoundToCurrentHandle ==
    (/\ localStream # 0
     /\ peerConnectionRef # 0
     /\ conns[peerConnectionRef].open)
    => localStream \in senders[peerConnectionRef]

\* C25: the page's role is chosen once per session: it leaves null only by
\* handleSetRole, and once it is caller or callee it changes only when
\* handleEndCall runs, which sets it back to null and resets the connection.
C25_RoleChosenOncePerSession ==
    [][/\ (role = "none" /\ role' # "none") => handleSetRole(role')
       /\ (role # "none" /\ role' # role)
             => (handleEndCall /\ role' = "none" /\ peerConnectionRef' # peerConnectionRef)
      ]_vars
C25_Witness ==
    /\ role = "caller"
    /\ appState = "signaling"
    /\ nextHandle = MaxHandles
    /\ \E t \in Tasks : tasks[t].op = "createAnswer"

\* C26: when the callee's createAnswer succeeds the page stays in the
\* signaling view, and the callee's page enters the connected view only in a
\* step after which isConnected is true.
C26_CalleeWaitsForConnection ==
    [][/\ ((\E t \in Tasks : CallResolves(t, "createAnswer"))
             /\ appState = "signaling" /\ ~isConnected')
          => appState' = "signaling"
       /\ (role = "callee" /\ appState # "connected" /\ appState' = "connected")
          => isConnected'
      ]_vars
C26_Witness ==
    /\ role = "callee"
    /\ answerData # 0
    /\ tasks[answerData].st = "resolved"
    /\ appState = "connected"
    /\ isConnected

\* C29: the page shows the connected view only if isConnected was true at
\* some render of the current session.
C29_ConnectedViewOnlyAfterConnected == appState = "connected" => everConnected

\* C31: once the gathering waits have resolved no timer of theirs is pending:
\* while no call is in its gathering wait, no 100 ms poll is still being
\* rescheduled.  (The 2000 ms timer is pending only while its call is in the
\* wait: createOffer_gathered and createAnswer_gathered clear it.)
C31_NoTimerLeftBehind ==
    (\A t \in Tasks : tasks[t].st # "wait") => stalePolls = 0
====
